---- MODULE Spec2Model ----
(***************************************************************************)
(* Model of the lead workflow engine of Backend/leads: the LeadService     *)
(* operations over the leads and stages collections (services.py) and the  *)
(* helpers of models.py.  Every service call is one atomic step of Spec;   *)
(* SpecIds adds a log of the item_ids handed out, SpecGen applies          *)
(* generate_lead_id to stored collections, and SpecC splits the calls that *)
(* read and then write into two steps for concurrent callers.              *)
(***************************************************************************)
EXTENDS Integers, Sequences, FiniteSets, TLC

VARIABLES
    leads,      \* leads_collection: lead uid -> stored lead document
    stages,     \* stages_collection: stage uid -> stored stage document
    nextLead,   \* uuid4 source for lead uids (never reused)
    nextUid,    \* uuid4 source for task uids (never reused)
    clock,      \* datetime.now(UTC) of the most recent write
    ret,        \* outcome of the most recent service call
    issued,     \* sequence numbers returned by generate_lead_id, in order of issue
    calls       \* service calls between their reads and their write

vars == <<leads, stages, nextLead, nextUid, clock, ret, issued, calls>>

----------------------------------------------------------------------------
\* Bounds of the model
MaxLeads == 2
MaxClock == 4
MaxCalls == 2
MaxIssued == 1
MaxUpdated == 1

\* Inputs
StageUids   == {"A", "B", "C"}
ConfigUids  == {"None", "default", "other"}
Actors      == {"u1"}
Comment     == "c"
Notes       == "n"

\* Optional values
Null    == 0
NoneStr == "None"

\* Enumerations of models.py
PENDING     == "pending"
IN_PROGRESS == "in_progress"
COMPLETED   == "completed"
SKIPPED     == "skipped"
BLOCKED     == "blocked"
FieldType == {"string", "integer", "decimal", "boolean", "date", "datetime",
              "enum", "array", "document"}

----------------------------------------------------------------------------
\* a Python value: its type and, for the numbers, its magnitude
PyInt(n) == [type |-> "int", num |-> n, text |-> ""]
PyStr(t) == [type |-> "str", num |-> 0, text |-> t]
PyNone == [type |-> "NoneType", num |-> 0, text |-> ""]

\* FieldDefinition documents of the task template "Call"; validation_rules is
\* the list of the keys of the dict with their values
TaskVariables ==
    << [field_key |-> "amount", field_type |-> "integer", required |-> FALSE,
        validation_rules |-> << [rule |-> "min", bound |-> 1],
                                [rule |-> "max", bound |-> 10] >>],
       [field_key |-> "count", field_type |-> "integer", required |-> FALSE,
        validation_rules |-> << >>],
       [field_key |-> "reason", field_type |-> "string", required |-> TRUE,
        validation_rules |-> << >>] >>

\* Stage documents handed to create_stage.  Where no stage "C" is created the
\* edge A -> C dangles.
StageData ==
    { [uid |-> "A", name |-> "New", config |-> "default", order |-> 2,
       is_active |-> TRUE, allowed_next_stages |-> {"B", "C"},
       stage_tasks |-> << [uid |-> "T1", name |-> "Call", required |-> TRUE,
                           is_active |-> TRUE,
                           task_variables |-> TaskVariables] >>],
      [uid |-> "B", name |-> "Contacted", config |-> "other", order |-> 1,
       is_active |-> FALSE, allowed_next_stages |-> {"A"},
       stage_tasks |-> << [uid |-> "T2", name |-> "Qualify", required |-> FALSE,
                           is_active |-> TRUE, task_variables |-> << >>],
                          [uid |-> "T3", name |-> "Survey", required |-> FALSE,
                           is_active |-> FALSE, task_variables |-> << >>] >>] }

\* a third stage, reached from "A" alone, that concurrent callers can target
StageC ==
    [uid |-> "C", name |-> "Won", config |-> "default", order |-> 3,
     is_active |-> TRUE, allowed_next_stages |-> {}, stage_tasks |-> << >>]

\* a task that the creation data carries as skipped, and the lead that holds it
SkippedTask ==
    [uid |-> 101, name |-> "Survey", template_id |-> "T3", stage |-> "A",
     status |-> SKIPPED, required |-> FALSE, is_active |-> TRUE,
     task_variables |-> << >>,
     completed_at |-> Null, completed_by |-> NoneStr, notes |-> "",
     field_values |-> << >>]

\* lead_data handed to create_lead: the required fields alone, or with lists
\* the caller supplies (WorkItem accepts tasks, history and activities): a lead
\* imported into "B" that carries the open history entry and the pending
\* required task of an earlier stay in "A"
SuppliedTask ==
    [uid |-> 100, name |-> "Call", template_id |-> "T1", stage |-> "A",
     status |-> PENDING, required |-> TRUE, is_active |-> TRUE,
     task_variables |-> TaskVariables,
     completed_at |-> Null, completed_by |-> NoneStr, notes |-> "",
     field_values |-> << >>]
SuppliedHistory == [stage |-> "A", entered_at |-> 1, exited_at |-> Null]
SuppliedActivity ==
    [type |-> "NOTE_ADDED", subject |-> "Imported", performed_by |-> "u1",
     created_at |-> 1,
     activity_data |-> [from_stage |-> NoneStr, to_stage |-> NoneStr,
                        comment |-> NoneStr, task_uid |-> Null, notes |-> NoneStr]]
PlainLead ==
    [name |-> "Acme", current_stage |-> "A", config |-> "default",
     created_by |-> "u1",
     tasks |-> << >>, history |-> << >>, activities |-> << >>]
ImportedLead ==
    [name |-> "Globex", current_stage |-> "B", config |-> "other",
     created_by |-> "u1",
     tasks |-> << SuppliedTask >>, history |-> << SuppliedHistory >>,
     activities |-> << SuppliedActivity >>]
LeadData == {PlainLead, ImportedLead}

TriagedLead ==
    [name |-> "Initech", current_stage |-> "A", config |-> "default",
     created_by |-> "u1",
     tasks |-> << SkippedTask >>, history |-> << >>, activities |-> << >>]

\* field_values arguments of complete_task; NoneStr marks a missing key
FieldValuesInput ==
    { << [variable |-> "amount", field_type |-> "integer",
          original_value |-> NoneStr, value |-> PyInt(0)],
         [variable |-> "count", field_type |-> "integer",
          original_value |-> "5", value |-> PyStr("5")],
         [variable |-> "reason", field_type |-> "string",
          original_value |-> NoneStr, value |-> PyNone] >>,
      << [variable |-> "amount", field_type |-> "integer",
          original_value |-> "5", value |-> PyInt(5)],
         [variable |-> "when", field_type |-> "money",
          original_value |-> "x", value |-> PyStr("x")] >>,
      << [variable |-> NoneStr, field_type |-> "string",
          original_value |-> "x", value |-> PyStr("x")] >> }

----------------------------------------------------------------------------
\* Helpers
RECURSIVE Digits(_)
Digits(n) == IF n < 10 THEN << n >> ELSE Append(Digits(n \div 10), n % 10)

RECURSIVE Zeros(_)
Zeros(k) == IF k <= 0 THEN << >> ELSE << 0 >> \o Zeros(k - 1)

\* f"{new_num:05d}"
PadWidth == 5
Format05d(n) == Zeros(PadWidth - Len(Digits(n))) \o Digits(n)

\* str comparison used by sort=[("item_id", -1)]
RECURSIVE StrLess(_, _)
StrLess(s, t) ==
    IF s = << >> THEN t # << >>
    ELSE IF t = << >> THEN FALSE
    ELSE IF Head(s) # Head(t) THEN Head(s) < Head(t)
    ELSE StrLess(Tail(s), Tail(t))

\* generate_lead_id: sequence number of the next item_id (one month, one prefix)
generate_lead_id(col) ==
    IF DOMAIN col = {} THEN 1
    ELSE LET last_lead == CHOOSE l \in DOMAIN col :
                 \A m \in DOMAIN col :
                     ~ StrLess(Format05d(col[l].item_id), Format05d(col[m].item_id))
         IN col[last_lead].item_id + 1

----------------------------------------------------------------------------
\* Result of a service call, as the caller sees it
Ret(op, lead, result, names) ==
    [op |-> op, lead |-> lead, result |-> result, names |-> names,
     task |-> Null, count |-> 0, columns |-> << >>]
\* ... of a call that names a task / of a call that reports a count
RetTask(op, lead, task, result) ==
    [Ret(op, lead, result, << >>) EXCEPT !.task = task]
RetCount(op, result, count) ==
    [Ret(op, 0, result, << >>) EXCEPT !.count = count]

\* Activity(...).model_dump: activity_data keys that are absent are NoneStr/Null
Activity(type, subject, performed_by, now, from_stage, to_stage, comment, task_uid, notes) ==
    [type |-> type, subject |-> subject, performed_by |-> performed_by,
     created_at |-> now,
     activity_data |-> [from_stage |-> from_stage, to_stage |-> to_stage,
                        comment |-> comment, task_uid |-> task_uid,
                        notes |-> notes]]

Init ==
    /\ leads = << >>
    /\ stages = << >>
    /\ nextLead = 1
    /\ nextUid = 1
    /\ clock = 0
    /\ ret = Ret("init", 0, "ok", << >>)
    /\ issued = << >>
    /\ calls = [creating |-> {}, moving |-> {}, deleting |-> {}, projecting |-> {}]

\* collection.insert_one / delete_one on a uid-keyed collection
Insert(col, uid, doc) == [k \in DOMAIN col \cup {uid} |-> IF k = uid THEN doc ELSE col[k]]
Delete(col, uid) == [k \in DOMAIN col \ {uid} |-> col[k]]

\* LeadService.create_stage
create_stage(stage_data) ==
    /\ stage_data.uid \notin DOMAIN stages
    /\ stages' = Insert(stages, stage_data.uid,
                        [name |-> stage_data.name, config |-> stage_data.config,
                         order |-> stage_data.order,
                         is_active |-> stage_data.is_active,
                         allowed_next_stages |-> stage_data.allowed_next_stages,
                         stage_tasks |-> stage_data.stage_tasks])
    /\ ret' = Ret("create_stage", 0, "ok", << >>)
    /\ UNCHANGED <<leads, nextLead, nextUid, clock>>

\* WorkItem(**lead_data).model_dump with the initial history entry and the
\* CREATED activity that create_lead adds when the caller supplied none
new_lead(lead_data, uid, item_id, now) ==
    LET initial == [stage |-> lead_data.current_stage, entered_at |-> now,
                    exited_at |-> Null]
        created == Activity("CREATED", "Lead created", lead_data.created_by,
                            now, NoneStr, NoneStr, NoneStr, Null, NoneStr)
    IN [uid |-> uid,
        item_id |-> item_id,
        name |-> lead_data.name,
        current_stage |-> lead_data.current_stage,
        status |-> PENDING,
        config |-> lead_data.config,
        history |-> IF lead_data.history = << >> /\ lead_data.current_stage # ""
                    THEN << initial >> ELSE lead_data.history,
        tasks |-> lead_data.tasks,
        activities |-> IF lead_data.activities = << >>
                       THEN << created >> ELSE lead_data.activities]

\* LeadService.create_lead
create_lead(lead_data) ==
    /\ nextLead <= MaxLeads
    /\ clock < MaxClock
    /\ leads' = Insert(leads, nextLead,
                       new_lead(lead_data, nextLead, generate_lead_id(leads),
                                clock + 1))
    /\ clock' = clock + 1
    /\ ret' = Ret("create_lead", nextLead, "ok", << >>)
    /\ nextLead' = nextLead + 1
    /\ UNCHANGED <<stages, nextUid>>

\* LeadService.delete_lead
delete_lead(uid) ==
    /\ leads' = Delete(leads, uid)
    /\ ret' = Ret("delete_lead", uid,
                  IF uid \in DOMAIN leads THEN "ok" ELSE "not_found", << >>)
    /\ UNCHANGED <<stages, nextLead, nextUid, clock>>

\* variant: the stage is deleted without counting the leads in it
delete_stage_unchecked(uid) ==
    /\ stages' = Delete(stages, uid)
    /\ ret' = RetCount("delete_stage",
                       IF uid \in DOMAIN stages THEN "ok" ELSE "not_found", 0)
    /\ UNCHANGED <<leads, nextLead, nextUid, clock>>

\* LeadService.delete_stage
delete_stage(uid) ==
    LET lead_count == Cardinality({ l \in DOMAIN leads : leads[l].current_stage = uid })
    IN IF lead_count > 0
       THEN /\ ret' = RetCount("delete_stage", "StageInUse", lead_count)
            /\ UNCHANGED <<leads, stages, nextLead, nextUid, clock>>
       ELSE /\ stages' = Delete(stages, uid)
            /\ ret' = RetCount("delete_stage",
                               IF uid \in DOMAIN stages THEN "ok" ELSE "not_found", 0)
            /\ UNCHANGED <<leads, nextLead, nextUid, clock>>

----------------------------------------------------------------------------
\* LeadService.transition_stage

\* variant: only the tasks of the lead's current stage are looked at
required_tasks_current_stage(lead) ==
    SelectSeq(lead.tasks, LAMBDA t : t.required /\ t.status # COMPLETED
                                     /\ t.stage = lead.current_stage)

\* variant: every task that is not completed blocks, required or not
required_tasks_optional_too(lead) ==
    SelectSeq(lead.tasks, LAMBDA t : t.status # COMPLETED)

\* the required tasks that block a transition
required_tasks(lead) ==
    SelectSeq(lead.tasks, LAMBDA t : t.required /\ t.status # COMPLETED)

task_names(ts) == [i \in DOMAIN ts |-> ts[i].name]

\* "Exit current stage in history"
exit_history(lead, now) ==
    [i \in DOMAIN lead.history |->
        IF lead.history[i].stage = lead.current_stage
           /\ lead.history[i].exited_at = Null
        THEN [lead.history[i] EXCEPT !.exited_at = now]
        ELSE lead.history[i]]

\* variant: inactive templates are skipped
new_tasks_active_only(new_stage_uid, new_stage, uid0) ==
    LET active == SelectSeq(new_stage.stage_tasks, LAMBDA st : st.is_active)
    IN [i \in DOMAIN active |->
          [uid |-> uid0 + i - 1, name |-> active[i].name,
           template_id |-> active[i].uid, stage |-> new_stage_uid,
           status |-> PENDING, required |-> active[i].required,
           is_active |-> active[i].is_active,
           task_variables |-> active[i].task_variables,
           completed_at |-> Null, completed_by |-> NoneStr, notes |-> "",
           field_values |-> << >>]]

\* variant: required is not copied from the template (model default False)
new_tasks_required_default(new_stage_uid, new_stage, uid0) ==
    [i \in DOMAIN new_stage.stage_tasks |->
        [uid |-> uid0 + i - 1,
         name |-> new_stage.stage_tasks[i].name,
         template_id |-> new_stage.stage_tasks[i].uid,
         stage |-> new_stage_uid,
         status |-> PENDING,
         required |-> FALSE,
         is_active |-> new_stage.stage_tasks[i].is_active,
         task_variables |-> new_stage.stage_tasks[i].task_variables,
         completed_at |-> Null, completed_by |-> NoneStr, notes |-> "",
         field_values |-> << >>]]

\* "Create tasks from new stage template"; uid0 is the first fresh uuid
new_tasks(new_stage_uid, new_stage, uid0) ==
    [i \in DOMAIN new_stage.stage_tasks |->
        [uid |-> uid0 + i - 1,
         name |-> new_stage.stage_tasks[i].name,
         template_id |-> new_stage.stage_tasks[i].uid,
         stage |-> new_stage_uid,
         status |-> PENDING,
         required |-> new_stage.stage_tasks[i].required,
         is_active |-> new_stage.stage_tasks[i].is_active,
         task_variables |-> new_stage.stage_tasks[i].task_variables,
         completed_at |-> Null, completed_by |-> NoneStr, notes |-> "",
         field_values |-> << >>]]

\* variant: the required tasks are checked before the edge
transition_check_tasks_first(lead_uid, new_stage_uid) ==
    IF lead_uid \notin DOMAIN leads THEN "LeadNotFound"
    ELSE IF new_stage_uid \notin DOMAIN stages THEN "StageNotFound"
    ELSE IF leads[lead_uid].current_stage \notin DOMAIN stages THEN "AttributeError"
    ELSE IF required_tasks(leads[lead_uid]) # << >> THEN "RequiredTasksIncomplete"
    ELSE IF new_stage_uid \notin
              stages[leads[lead_uid].current_stage].allowed_next_stages
         THEN "TransitionNotAllowed"
    ELSE "ok"

\* variant: the target stage is looked up after the edge and the tasks
transition_check_target_last(lead_uid, new_stage_uid) ==
    IF lead_uid \notin DOMAIN leads THEN "LeadNotFound"
    ELSE IF leads[lead_uid].current_stage \notin DOMAIN stages THEN "AttributeError"
    ELSE IF new_stage_uid \notin
              stages[leads[lead_uid].current_stage].allowed_next_stages
         THEN "TransitionNotAllowed"
    ELSE IF required_tasks(leads[lead_uid]) # << >> THEN "RequiredTasksIncomplete"
    ELSE IF new_stage_uid \notin DOMAIN stages THEN "StageNotFound"
    ELSE "ok"

\* the validation of transition_stage, in the order of the code; a missing
\* current stage is dereferenced after the target lookup (AttributeError)
transition_check(lead_uid, new_stage_uid) ==
    IF lead_uid \notin DOMAIN leads THEN "LeadNotFound"
    ELSE IF new_stage_uid \notin DOMAIN stages THEN "StageNotFound"
    ELSE IF leads[lead_uid].current_stage \notin DOMAIN stages THEN "AttributeError"
    ELSE IF new_stage_uid \notin
              stages[leads[lead_uid].current_stage].allowed_next_stages
         THEN "TransitionNotAllowed"
    ELSE IF required_tasks(leads[lead_uid]) # << >> THEN "RequiredTasksIncomplete"
    ELSE "ok"

\* variant: from_stage is read after the stage has been switched
transition_update_from_new(lead, new_stage_uid, new_stage, current_stage, now, uid0, comment, performed_by) ==
    [lead EXCEPT
        !.current_stage = new_stage_uid,
        !.status = IN_PROGRESS,
        !.history = exit_history(lead, now),
        !.tasks = @ \o new_tasks(new_stage_uid, new_stage, uid0),
        !.activities = Append(@, Activity("STAGE_CHANGE", new_stage.name,
                                          performed_by, now, new_stage.name,
                                          new_stage.name, comment, Null, NoneStr))]

\* the update_one of transition_stage: $set current_stage, status, history;
\* $push tasks and the activity
transition_update(lead, new_stage_uid, new_stage, current_stage, now, uid0, comment, performed_by) ==
    [lead EXCEPT
        !.current_stage = new_stage_uid,
        !.status = IN_PROGRESS,
        !.history = exit_history(lead, now),
        !.tasks = @ \o new_tasks(new_stage_uid, new_stage, uid0),
        !.activities = Append(@, Activity("STAGE_CHANGE", new_stage.name,
                                          performed_by, now, current_stage.name,
                                          new_stage.name, comment, Null, NoneStr))]

\* variant: the required-task check is made after the update has been written
transition_stage_write_first(lead_uid, new_stage_uid, comment, performed_by) ==
    LET result == transition_check(lead_uid, new_stage_uid)
    IN IF result \in {"ok", "RequiredTasksIncomplete"}
       THEN /\ clock < MaxClock
            /\ LET lead == leads[lead_uid]
                   new_stage == stages[new_stage_uid]
               IN /\ leads' = [leads EXCEPT ![lead_uid] =
                        transition_update(lead, new_stage_uid, new_stage,
                                          stages[lead.current_stage], clock + 1,
                                          nextUid, comment, performed_by)]
                  /\ nextUid' = nextUid + Len(new_stage.stage_tasks)
            /\ clock' = clock + 1
            /\ ret' = Ret("transition_stage", lead_uid, result,
                          IF result = "RequiredTasksIncomplete"
                          THEN task_names(required_tasks(leads[lead_uid]))
                          ELSE << >>)
            /\ UNCHANGED <<stages, nextLead>>
       ELSE /\ ret' = Ret("transition_stage", lead_uid, result, << >>)
            /\ UNCHANGED <<leads, stages, nextLead, nextUid, clock>>

transition_stage(lead_uid, new_stage_uid, comment, performed_by) ==
    LET result == transition_check(lead_uid, new_stage_uid)
    IN IF result = "ok"
       THEN /\ clock < MaxClock
            /\ LET lead == leads[lead_uid]
                   new_stage == stages[new_stage_uid]
               IN /\ leads' = [leads EXCEPT ![lead_uid] =
                        transition_update(lead, new_stage_uid, new_stage,
                                          stages[lead.current_stage], clock + 1,
                                          nextUid, comment, performed_by)]
                  /\ nextUid' = nextUid + Len(new_stage.stage_tasks)
            /\ clock' = clock + 1
            /\ ret' = Ret("transition_stage", lead_uid, "ok", << >>)
            /\ UNCHANGED <<stages, nextLead>>
       ELSE /\ ret' = Ret("transition_stage", lead_uid, result,
                          IF result = "RequiredTasksIncomplete"
                          THEN task_names(required_tasks(leads[lead_uid]))
                          ELSE << >>)
            /\ UNCHANGED <<leads, stages, nextLead, nextUid, clock>>

----------------------------------------------------------------------------
\* LeadService.complete_task

\* TaskFieldValue(**fv): variable is required, field_type must be a FieldType
\* variant: field_type as the plain string of TaskFieldValueSerializer
valid_field_value_any_type(fv) ==
    fv.variable # NoneStr

\* TaskFieldValue(**fv) raises unless variable is given and field_type is a FieldType
valid_field_value(fv) ==
    fv.variable # NoneStr /\ fv.field_type \in FieldType

\* TaskFieldValue(**fv).model_dump: original_value defaults to "", value to None
TaskFieldValue(fv) ==
    [variable |-> fv.variable, field_type |-> fv.field_type,
     original_value |-> IF fv.original_value = NoneStr THEN "" ELSE fv.original_value,
     value |-> fv.value]

validated_values(field_values) ==
    [i \in DOMAIN field_values |-> TaskFieldValue(field_values[i])]

\* the value of key in the validation_rules dict
Rule(field_def, key) ==
    LET i == CHOOSE i \in DOMAIN field_def.validation_rules :
                 field_def.validation_rules[i].rule = key
    IN field_def.validation_rules[i].bound
HasRule(field_def, key) ==
    \E i \in DOMAIN field_def.validation_rules :
        field_def.validation_rules[i].rule = key

\* isinstance(value, int) holds for bool too; < and > between a str or None
\* and a number raise TypeError
IsNumber(value) == value.type \in {"int", "bool", "float"}

\* models.validate_field_value: "ok" where it returns True, else the exception
validate_field_value(field_def, value) ==
    IF field_def.field_type = "integer" /\ value.type \notin {"int", "bool"}
    THEN "ValueError"
    ELSE IF field_def.field_type = "decimal" /\ ~ IsNumber(value)
    THEN "ValueError"
    ELSE IF field_def.field_type = "boolean" /\ value.type # "bool"
    THEN "ValueError"
    ELSE IF HasRule(field_def, "min") /\ ~ IsNumber(value) THEN "TypeError"
    ELSE IF HasRule(field_def, "min") /\ value.num < Rule(field_def, "min")
    THEN "ValueError"
    ELSE IF HasRule(field_def, "max") /\ ~ IsNumber(value) THEN "TypeError"
    ELSE IF HasRule(field_def, "max") /\ value.num > Rule(field_def, "max")
    THEN "ValueError"
    ELSE IF field_def.required /\ value.type = "NoneType" THEN "ValueError"
    ELSE "ok"

\* the filter {"uid": lead_uid, "tasks.uid": task_uid}
task_matches(lead_uid, task_uid) ==
    /\ lead_uid \in DOMAIN leads
    /\ \E i \in DOMAIN leads[lead_uid].tasks : leads[lead_uid].tasks[i].uid = task_uid

\* the positional operator tasks.$ : the first array element that matches
positional(lead, task_uid) ==
    CHOOSE i \in DOMAIN lead.tasks :
        /\ lead.tasks[i].uid = task_uid
        /\ \A j \in 1..(i - 1) : lead.tasks[j].uid # task_uid

\* variant: the all-positional operator tasks.$[] instead of tasks.$
complete_update_all(lead, task_uid, field_values, notes, completed_by, now) ==
    [lead EXCEPT
        !.tasks = [i \in DOMAIN lead.tasks |->
            [lead.tasks[i] EXCEPT !.status = COMPLETED, !.completed_at = now,
                      !.completed_by = completed_by, !.notes = notes,
                      !.field_values = validated_values(field_values)]],
        !.activities = Append(@, Activity("TASK_COMPLETED", "Task completed",
                                          completed_by, now, NoneStr, NoneStr,
                                          NoneStr, task_uid, notes))]

\* variant: the lead is marked completed with its last required task
complete_update_lead_status(lead, task_uid, field_values, notes, completed_by, now) ==
    LET done == [lead EXCEPT
            !.tasks[positional(lead, task_uid)] =
                [@ EXCEPT !.status = COMPLETED, !.completed_at = now,
                          !.completed_by = completed_by, !.notes = notes,
                          !.field_values = validated_values(field_values)],
            !.activities = Append(@, Activity("TASK_COMPLETED", "Task completed",
                                              completed_by, now, NoneStr, NoneStr,
                                              NoneStr, task_uid, notes))]
    IN IF \A i \in DOMAIN done.tasks :
              done.tasks[i].required => done.tasks[i].status = COMPLETED
       THEN [done EXCEPT !.status = COMPLETED]
       ELSE done

\* the update_one of complete_task
complete_update(lead, task_uid, field_values, notes, completed_by, now) ==
    [lead EXCEPT
        !.tasks[positional(lead, task_uid)] =
            [@ EXCEPT !.status = COMPLETED, !.completed_at = now,
                      !.completed_by = completed_by, !.notes = notes,
                      !.field_values = validated_values(field_values)],
        !.activities = Append(@, Activity("TASK_COMPLETED", "Task completed",
                                          completed_by, now, NoneStr, NoneStr,
                                          NoneStr, task_uid, notes))]

\* variant: the filter is {"uid": lead_uid} alone, so the activity is pushed
\* on a lead that does not carry the task
complete_task_lead_filter(lead_uid, task_uid, field_values, notes, completed_by) ==
    IF \E i \in DOMAIN field_values : ~ valid_field_value(field_values[i])
    THEN /\ ret' = RetTask("complete_task", lead_uid, task_uid, "ValidationError")
         /\ UNCHANGED <<leads, stages, nextLead, nextUid, clock>>
    ELSE IF lead_uid \notin DOMAIN leads
    THEN /\ ret' = RetTask("complete_task", lead_uid, task_uid, "not_found")
         /\ UNCHANGED <<leads, stages, nextLead, nextUid, clock>>
    ELSE /\ clock < MaxClock
         /\ leads' = [leads EXCEPT ![lead_uid] =
                IF task_matches(lead_uid, task_uid)
                THEN complete_update(leads[lead_uid], task_uid, field_values, notes,
                                     completed_by, clock + 1)
                ELSE [@ EXCEPT !.activities =
                        Append(@, Activity("TASK_COMPLETED", "Task completed",
                                           completed_by, clock + 1, NoneStr, NoneStr,
                                           NoneStr, task_uid, notes))]]
         /\ clock' = clock + 1
         /\ ret' = RetTask("complete_task", lead_uid, task_uid, "ok")
         /\ UNCHANGED <<stages, nextLead, nextUid>>

\* LeadService.complete_task
complete_task(lead_uid, task_uid, field_values, notes, completed_by) ==
    IF \E i \in DOMAIN field_values : ~ valid_field_value(field_values[i])
    THEN /\ ret' = RetTask("complete_task", lead_uid, task_uid, "ValidationError")
         /\ UNCHANGED <<leads, stages, nextLead, nextUid, clock>>
    ELSE IF ~ task_matches(lead_uid, task_uid)
    THEN /\ ret' = RetTask("complete_task", lead_uid, task_uid, "not_found")
         /\ UNCHANGED <<leads, stages, nextLead, nextUid, clock>>
    ELSE /\ clock < MaxClock
         /\ leads' = [leads EXCEPT ![lead_uid] =
                complete_update(leads[lead_uid], task_uid, field_values, notes,
                                completed_by, clock + 1)]
         /\ clock' = clock + 1
         /\ ret' = RetTask("complete_task", lead_uid, task_uid, "ok")
         /\ UNCHANGED <<stages, nextLead, nextUid>>

----------------------------------------------------------------------------
\* the stages of a query sorted on "order"; the stored orders are distinct
RECURSIVE SortByOrder(_)
SortByOrder(S) ==
    IF S = {} THEN << >>
    ELSE LET first == CHOOSE u \in S : \A v \in S : stages[u].order <= stages[v].order
         IN << first >> \o SortByOrder(S \ {first})

\* variant: .sort("order", -1)
RECURSIVE SortByOrderDescending(_)
SortByOrderDescending(S) ==
    IF S = {} THEN << >>
    ELSE LET first == CHOOSE u \in S : \A v \in S : stages[u].order >= stages[v].order
         IN << first >> \o SortByOrderDescending(S \ {first})

list_stages_descending(config_uid) ==
    SortByOrderDescending({ u \in DOMAIN stages :
                               config_uid = NoneStr \/ stages[u].config = config_uid })

\* LeadService.list_stages: the uids of the stages of the query, sorted
list_stages(config_uid) ==
    SortByOrder({ u \in DOMAIN stages :
                     config_uid = NoneStr \/ stages[u].config = config_uid })

\* variant: the leads of a column are not filtered on config
kanban_data_any_config(config_uid) ==
    LET listed == list_stages(config_uid)
    IN [i \in DOMAIN listed |->
          LET found == { l \in DOMAIN leads : leads[l].current_stage = listed[i] }
          IN [stage |-> listed[i], doc |-> stages[listed[i]],
              leads |-> found, count |-> Cardinality(found)]]

\* the loop of get_kanban_data: one column per listed stage
kanban_data(config_uid) ==
    LET listed == list_stages(config_uid)
    IN [i \in DOMAIN listed |->
          LET found == { l \in DOMAIN leads :
                           /\ leads[l].current_stage = listed[i]
                           /\ config_uid = NoneStr \/ leads[l].config = config_uid }
          IN [stage |-> listed[i], doc |-> stages[listed[i]],
              leads |-> found, count |-> Cardinality(found)]]

\* LeadService.get_kanban_data
get_kanban_data(config_uid) ==
    /\ ret' = [Ret("get_kanban_data", 0, "ok", << >>)
                  EXCEPT !.columns = kanban_data(config_uid)]
    /\ UNCHANGED <<leads, stages, nextLead, nextUid, clock>>

----------------------------------------------------------------------------
\* Arguments a caller can pass
LeadUids == 1..MaxLeads
TaskUids ==
    UNION { { leads[l].tasks[i].uid : i \in DOMAIN leads[l].tasks } : l \in DOMAIN leads }
    \cup {nextUid}

Next ==
    \/ \E stage_data \in StageData :
          create_stage(stage_data) /\ UNCHANGED <<issued, calls>>
    \/ \E lead_data \in LeadData :
          create_lead(lead_data) /\ UNCHANGED <<issued, calls>>
    \/ \E uid \in LeadUids :
          delete_lead(uid) /\ UNCHANGED <<issued, calls>>
    \/ \E uid \in StageUids :
          delete_stage(uid) /\ UNCHANGED <<issued, calls>>
    \/ \E config_uid \in ConfigUids :
          get_kanban_data(config_uid) /\ UNCHANGED <<issued, calls>>
    \/ \E uid \in LeadUids, t \in StageUids, by \in Actors :
          transition_stage(uid, t, Comment, by) /\ UNCHANGED <<issued, calls>>
    \/ \E uid \in LeadUids, t \in TaskUids, fv \in FieldValuesInput, by \in Actors :
          complete_task(uid, t, fv, Notes, by) /\ UNCHANGED <<issued, calls>>

Spec == Init /\ [][Next]_vars

----------------------------------------------------------------------------
\* The sequential service with a log of the item_ids it hands out

\* create_lead, recording the sequence number generate_lead_id returned
create_lead_issue(lead_data) ==
    /\ create_lead(lead_data)
    /\ issued' = Append(issued, generate_lead_id(leads))
    /\ UNCHANGED calls

NextIds ==
    \/ \E stage_data \in StageData :
          create_stage(stage_data) /\ UNCHANGED <<issued, calls>>
    \/ \E lead_data \in LeadData : create_lead_issue(lead_data)
    \/ \E uid \in LeadUids :
          delete_lead(uid) /\ UNCHANGED <<issued, calls>>
    \/ \E uid \in LeadUids, t \in StageUids, by \in Actors :
          transition_stage(uid, t, Comment, by) /\ UNCHANGED <<issued, calls>>
    \/ \E uid \in LeadUids, t \in TaskUids, fv \in FieldValuesInput, by \in Actors :
          complete_task(uid, t, fv, Notes, by) /\ UNCHANGED <<issued, calls>>

SpecIds == Init /\ [][NextIds]_vars

----------------------------------------------------------------------------
\* generate_lead_id applied to stored collections of one month and one prefix

\* sequence numbers of the stored item_ids: around one digit, two digits and
\* PadWidth digits
IdPool == {1, 2, 3, 9, 10, 99999, 100000}

\* a leads collection whose item_ids have the sequence numbers S
Stored(S) == [k \in S |-> new_lead(PlainLead, k, k, 1)]

InitGen ==
    /\ leads \in { Stored(S) : S \in SUBSET IdPool }
    /\ stages = << >>
    /\ nextLead = 1
    /\ nextUid = 1
    /\ clock = 1
    /\ ret = Ret("init", 0, "ok", << >>)
    /\ issued = << >>
    /\ calls = [creating |-> {}, moving |-> {}, deleting |-> {}, projecting |-> {}]

\* a call of generate_lead_id(self.leads_collection)
call_generate_lead_id ==
    /\ Len(issued) < MaxIssued
    /\ issued' = Append(issued, generate_lead_id(leads))
    /\ UNCHANGED <<leads, stages, nextLead, nextUid, clock, ret, calls>>

NextGen == call_generate_lead_id

SpecGen == InitGen /\ [][NextGen]_vars

----------------------------------------------------------------------------
\* Concurrent callers: a call that reads and then writes is two steps, and the
\* steps of other calls may come between them

InFlight ==
    Cardinality(calls.creating) + Cardinality(calls.moving)
        + Cardinality(calls.deleting) + Cardinality(calls.projecting)

\* variant: the unique index on uid alone
duplicate_key_uid_only(col, uid, doc) ==
    uid \in DOMAIN col

\* the unique indexes on uid and item_id reject the insert (DuplicateKeyError)
duplicate_key(col, uid, doc) ==
    \/ uid \in DOMAIN col
    \/ \E k \in DOMAIN col : col[k].item_id = doc.item_id

\* create_lead up to generate_lead_id: the uid is drawn and the item_id read
create_lead_generate(lead_data) ==
    /\ nextLead <= MaxLeads
    /\ InFlight < MaxCalls
    /\ calls' = [calls EXCEPT !.creating = @ \cup
                    { [uid |-> nextLead, lead_data |-> lead_data,
                       item_id |-> generate_lead_id(leads)] }]
    /\ nextLead' = nextLead + 1
    /\ UNCHANGED <<leads, stages, nextUid, clock, ret, issued>>

\* create_lead from the WorkItem construction to insert_one
create_lead_insert(c) ==
    /\ c \in calls.creating
    /\ clock < MaxClock
    /\ calls' = [calls EXCEPT !.creating = @ \ {c}]
    /\ LET doc == new_lead(c.lead_data, c.uid, c.item_id, clock + 1)
       IN IF duplicate_key(leads, c.uid, doc)
          THEN /\ ret' = Ret("create_lead", c.uid, "DuplicateKeyError", << >>)
               /\ UNCHANGED <<leads, clock>>
          ELSE /\ leads' = Insert(leads, c.uid, doc)
               /\ clock' = clock + 1
               /\ ret' = Ret("create_lead", c.uid, "ok", << >>)
    /\ UNCHANGED <<stages, nextLead, nextUid, issued>>

\* transition_stage up to the update_one: get_lead, get_stage twice, the
\* validation, now and the task uids
transition_stage_read(lead_uid, new_stage_uid, comment, performed_by) ==
    LET result == transition_check(lead_uid, new_stage_uid)
    IN IF result = "ok"
       THEN /\ clock < MaxClock
            /\ InFlight < MaxCalls
            /\ calls' = [calls EXCEPT !.moving = @ \cup
                  { [uid |-> lead_uid, new_stage_uid |-> new_stage_uid,
                     lead |-> leads[lead_uid],
                     new_stage |-> stages[new_stage_uid],
                     current_stage |-> stages[leads[lead_uid].current_stage],
                     now |-> clock + 1, uid0 |-> nextUid,
                     comment |-> comment, performed_by |-> performed_by] }]
            /\ nextUid' = nextUid + Len(stages[new_stage_uid].stage_tasks)
            /\ clock' = clock + 1
            /\ UNCHANGED <<leads, stages, nextLead, ret, issued>>
       ELSE /\ ret' = Ret("transition_stage", lead_uid, result,
                          IF result = "RequiredTasksIncomplete"
                          THEN task_names(required_tasks(leads[lead_uid]))
                          ELSE << >>)
            /\ UNCHANGED <<leads, stages, nextLead, nextUid, clock, issued, calls>>

\* variant: tasks is $set from the lead that was read, like history
transition_stage_write_set_tasks(c) ==
    /\ c \in calls.moving
    /\ calls' = [calls EXCEPT !.moving = @ \ {c}]
    /\ leads' = IF c.uid \in DOMAIN leads
                THEN [leads EXCEPT ![c.uid] =
                        [transition_update(@, c.new_stage_uid, c.new_stage,
                                           c.current_stage, c.now, c.uid0,
                                           c.comment, c.performed_by)
                            EXCEPT !.history = exit_history(c.lead, c.now),
                                   !.tasks = c.lead.tasks \o
                                             new_tasks(c.new_stage_uid, c.new_stage,
                                                       c.uid0)]]
                ELSE leads
    /\ ret' = Ret("transition_stage", c.uid, "ok", << >>)
    /\ UNCHANGED <<stages, nextLead, nextUid, clock, issued>>

\* variant: activities is $set from the lead that was read, like history
transition_stage_write_set_activities(c) ==
    /\ c \in calls.moving
    /\ calls' = [calls EXCEPT !.moving = @ \ {c}]
    /\ leads' = IF c.uid \in DOMAIN leads
                THEN [leads EXCEPT ![c.uid] =
                        [transition_update(@, c.new_stage_uid, c.new_stage,
                                           c.current_stage, c.now, c.uid0,
                                           c.comment, c.performed_by)
                            EXCEPT !.history = exit_history(c.lead, c.now),
                                   !.activities =
                                       Append(c.lead.activities,
                                              Activity("STAGE_CHANGE", c.new_stage.name,
                                                       c.performed_by, c.now,
                                                       c.current_stage.name,
                                                       c.new_stage.name, c.comment,
                                                       Null, NoneStr))]]
                ELSE leads
    /\ ret' = Ret("transition_stage", c.uid, "ok", << >>)
    /\ UNCHANGED <<stages, nextLead, nextUid, clock, issued>>

\* the update_one of transition_stage on the document as it is stored now:
\* history is $set from the lead that was read, tasks and activities are pushed
transition_stage_write(c) ==
    /\ c \in calls.moving
    /\ calls' = [calls EXCEPT !.moving = @ \ {c}]
    /\ leads' = IF c.uid \in DOMAIN leads
                THEN [leads EXCEPT ![c.uid] =
                        [transition_update(@, c.new_stage_uid, c.new_stage,
                                           c.current_stage, c.now, c.uid0,
                                           c.comment, c.performed_by)
                            EXCEPT !.history = exit_history(c.lead, c.now)]]
                ELSE leads
    /\ ret' = Ret("transition_stage", c.uid, "ok", << >>)
    /\ UNCHANGED <<stages, nextLead, nextUid, clock, issued>>

\* Concurrent transition_stage calls on the leads of a pipeline of three stages
NextR ==
    \/ \E stage_data \in StageData \cup {StageC} :
          create_stage(stage_data) /\ UNCHANGED <<issued, calls>>
    \/ \E lead_data \in LeadData :
          create_lead(lead_data) /\ UNCHANGED <<issued, calls>>
    \/ \E uid \in LeadUids, t \in StageUids, by \in Actors :
          transition_stage_read(uid, t, Comment, by)
    \/ \E c \in calls.moving : transition_stage_write(c)

SpecR == Init /\ [][NextR]_vars

\* LeadService.add_activity: the activity is pushed on the stored document
add_activity(lead_uid, activity_type, subject, performed_by) ==
    IF lead_uid \notin DOMAIN leads
    THEN /\ ret' = Ret("add_activity", lead_uid, "not_found", << >>)
         /\ UNCHANGED <<leads, stages, nextLead, nextUid, clock>>
    ELSE /\ clock < MaxClock
         /\ leads' = [leads EXCEPT ![lead_uid].activities =
                Append(@, Activity(activity_type, subject, performed_by, clock + 1,
                                   NoneStr, NoneStr, NoneStr, Null, NoneStr))]
         /\ clock' = clock + 1
         /\ ret' = Ret("add_activity", lead_uid, "ok", << >>)
         /\ UNCHANGED <<stages, nextLead, nextUid>>

\* request.data of a PUT on a lead: a new name together with keys that
\* LeadUpdateSerializer does not declare
UpdateData ==
    { [name |-> "Renamed", uid |-> 9, item_id |-> 77, current_stage |-> "C",
       history |-> << >>, tasks |-> << >>, activities |-> << >>] }

\* the fields LeadUpdateSerializer declares
UpdateFields ==
    {"name", "email", "phone", "config_values", "assigned_to", "properties"}

\* variant: the serializer also declares uid and item_id
LeadUpdateSerializer_identity(data) ==
    [k \in DOMAIN data \cap (UpdateFields \cup {"uid", "item_id"}) |-> data[k]]

\* variant: the serializer also declares the stage and the embedded lists
LeadUpdateSerializer_lists(data) ==
    [k \in DOMAIN data \cap
           (UpdateFields \cup {"current_stage", "history", "tasks", "activities"})
        |-> data[k]]

\* serializer.validated_data: the declared fields that the request carries
LeadUpdateSerializer(data) ==
    [k \in DOMAIN data \cap UpdateFields |-> data[k]]

\* {"$set": updates} on a document
set_fields(doc, updates) ==
    [k \in DOMAIN doc \cup DOMAIN updates |->
        IF k \in DOMAIN updates THEN updates[k] ELSE doc[k]]

\* LeadService.update_lead
update_lead(uid, updates) ==
    /\ leads' = IF uid \in DOMAIN leads
                THEN [leads EXCEPT ![uid] = set_fields(@, updates)]
                ELSE leads
    /\ ret' = Ret("update_lead", uid,
                  IF uid \in DOMAIN leads THEN "ok" ELSE "not_found", << >>)
    /\ UNCHANGED <<stages, nextLead, nextUid, clock>>

\* LeadViewSet.update
update(pk, data) ==
    update_lead(pk, LeadUpdateSerializer(data))

ActivityTypes == {"NOTE_ADDED"}

\* the field_values arguments that TaskFieldValue accepts
WellFormedInput ==
    { fv \in FieldValuesInput : \A n \in DOMAIN fv : valid_field_value(fv[n]) }

\* The calls that write to a stored lead, with transition_stage as its read
\* and its write, in any interleaving
NextU ==
    \/ \E stage_data \in StageData :
          create_stage(stage_data) /\ UNCHANGED <<issued, calls>>
    \/ \E lead_data \in LeadData :
          nextLead <= MaxUpdated /\ create_lead(lead_data) /\ UNCHANGED <<issued, calls>>
    \/ \E uid \in DOMAIN leads, t \in StageUids, by \in Actors :
          transition_stage_read(uid, t, Comment, by)
    \/ \E c \in calls.moving : transition_stage_write(c)
    \/ \E uid \in DOMAIN leads, t \in TaskUids, fv \in WellFormedInput, by \in Actors :
          complete_task(uid, t, fv, Notes, by) /\ UNCHANGED <<issued, calls>>
    \/ \E uid \in DOMAIN leads, type \in ActivityTypes, by \in Actors :
          add_activity(uid, type, "Note", by) /\ UNCHANGED <<issued, calls>>
    \/ \E pk \in LeadUids, data \in UpdateData :
          update(pk, data) /\ UNCHANGED <<issued, calls>>

\* delete_stage up to the delete_one: the leads in the stage are counted
delete_stage_count(uid) ==
    LET lead_count == Cardinality({ l \in DOMAIN leads : leads[l].current_stage = uid })
    IN IF lead_count > 0
       THEN /\ ret' = RetCount("delete_stage", "StageInUse", lead_count)
            /\ UNCHANGED <<leads, stages, nextLead, nextUid, clock, issued, calls>>
       ELSE /\ InFlight < MaxCalls
            /\ calls' = [calls EXCEPT !.deleting = @ \cup { [uid |-> uid] }]
            /\ UNCHANGED <<leads, stages, nextLead, nextUid, clock, ret, issued>>

\* the delete_one of delete_stage, on the stages collection as it is now
delete_stage_delete(c) ==
    /\ c \in calls.deleting
    /\ calls' = [calls EXCEPT !.deleting = @ \ {c}]
    /\ stages' = Delete(stages, c.uid)
    /\ ret' = RetCount("delete_stage",
                       IF c.uid \in DOMAIN stages THEN "ok" ELSE "not_found", 0)
    /\ UNCHANGED <<leads, nextLead, nextUid, clock, issued>>

\* delete_stage beside the calls that put a lead into a stage
NextD ==
    \/ \E stage_data \in StageData :
          create_stage(stage_data) /\ UNCHANGED <<issued, calls>>
    \/ \E lead_data \in LeadData :
          create_lead(lead_data) /\ UNCHANGED <<issued, calls>>
    \/ \E uid \in LeadUids, t \in StageUids, by \in Actors :
          transition_stage_read(uid, t, Comment, by)
    \/ \E c \in calls.moving : transition_stage_write(c)
    \/ \E uid \in StageUids : delete_stage_count(uid)
    \/ \E c \in calls.deleting : delete_stage_delete(c)

SpecD == Init /\ [][NextD]_vars

\* get_kanban_data up to its loop: list_stages, and the leads stored then
kanban_begin(config_uid) ==
    /\ InFlight < MaxCalls
    /\ calls' = [calls EXCEPT !.projecting = @ \cup
          { [config_uid |-> config_uid,
             listed |-> list_stages(config_uid),
             docs |-> [i \in DOMAIN list_stages(config_uid) |->
                          stages[list_stages(config_uid)[i]]],
             started |-> [l \in DOMAIN leads |-> leads[l].current_stage],
             columns |-> << >>] }]
    /\ UNCHANGED <<leads, stages, nextLead, nextUid, clock, ret, issued>>

\* one pass of the loop of get_kanban_data: the find of the next stage
kanban_column(p) ==
    /\ p \in calls.projecting
    /\ Len(p.columns) < Len(p.listed)
    /\ LET stage == p.listed[Len(p.columns) + 1]
           found == { l \in DOMAIN leads :
                        /\ leads[l].current_stage = stage
                        /\ p.config_uid = NoneStr \/ leads[l].config = p.config_uid }
       IN calls' = [calls EXCEPT !.projecting = (@ \ {p}) \cup
             { [p EXCEPT !.columns =
                   Append(@, [stage |-> stage, doc |-> p.docs[Len(p.columns) + 1],
                              leads |-> found, count |-> Cardinality(found)])] }]
    /\ UNCHANGED <<leads, stages, nextLead, nextUid, clock, ret, issued>>

\* return kanban_data
kanban_return(p) ==
    /\ p \in calls.projecting
    /\ Len(p.columns) = Len(p.listed)
    /\ calls' = [calls EXCEPT !.projecting = @ \ {p}]
    /\ ret' = [Ret("get_kanban_data", 0, "ok", << >>) EXCEPT !.columns = p.columns]
    /\ UNCHANGED <<leads, stages, nextLead, nextUid, clock, issued>>

\* get_kanban_data as its reads, with transitions between them
NextK ==
    \/ \E stage_data \in StageData :
          create_stage(stage_data) /\ UNCHANGED <<issued, calls>>
    \/ \E lead_data \in LeadData :
          create_lead(lead_data) /\ UNCHANGED <<issued, calls>>
    \/ \E uid \in LeadUids, t \in StageUids, by \in Actors :
          transition_stage(uid, t, Comment, by) /\ UNCHANGED <<issued, calls>>
    \/ kanban_begin(NoneStr)
    \/ \E p \in calls.projecting : kanban_column(p)
    \/ \E p \in calls.projecting : kanban_return(p)

SpecK == Init /\ [][NextK]_vars

\* stage_orders arguments of reorder_stages: the two stored stages, a uid that
\* matches no stage, a uid listed twice, and the empty list
StageOrders ==
    { << [uid |-> "A", order |-> 1], [uid |-> "B", order |-> 2] >>,
      << [uid |-> "C", order |-> 3], [uid |-> "B", order |-> 3] >>,
      << [uid |-> "A", order |-> 3], [uid |-> "A", order |-> 1] >>,
      << >> }

\* variant: the update has no filter and sets the order of every stage
set_order_every_stage(col, item) ==
    [u \in DOMAIN col |-> [col[u] EXCEPT !.order = item.order]]

\* UpdateOne({"uid": item["uid"]}, {"$set": {"order": item["order"]}})
set_order(col, item) ==
    IF item.uid \in DOMAIN col
    THEN [col EXCEPT ![item.uid].order = item.order]
    ELSE col

\* bulk_write(operations): the operations are applied in the order of the list
RECURSIVE bulk_write(_, _)
bulk_write(col, operations) ==
    IF operations = << >> THEN col
    ELSE bulk_write(set_order(col, Head(operations)), Tail(operations))

\* LeadService.reorder_stages; bulk_write raises InvalidOperation on an empty list
reorder_stages(stage_orders) ==
    /\ stages' = bulk_write(stages, stage_orders)
    /\ ret' = Ret("reorder_stages", 0,
                  IF stage_orders = << >> THEN "InvalidOperation"
                  ELSE IF \E i \in DOMAIN stage_orders :
                             stage_orders[i].uid \in DOMAIN stages
                       THEN "ok" ELSE "not_modified",
                  << >>)
    /\ UNCHANGED <<leads, nextLead, nextUid, clock>>

\* The calls on the stages collection, with leads stored beside it
NextO ==
    \/ \E stage_data \in StageData :
          create_stage(stage_data) /\ UNCHANGED <<issued, calls>>
    \/ \E lead_data \in LeadData :
          create_lead(lead_data) /\ UNCHANGED <<issued, calls>>
    \/ \E uid \in StageUids :
          delete_stage(uid) /\ UNCHANGED <<issued, calls>>
    \/ \E stage_orders \in StageOrders :
          reorder_stages(stage_orders) /\ UNCHANGED <<issued, calls>>

SpecO == Init /\ [][NextO]_vars

\* The calls that touch the tasks of a lead, on leads that may carry a task
\* skipped before they were stored
NextS ==
    \/ \E stage_data \in StageData :
          create_stage(stage_data) /\ UNCHANGED <<issued, calls>>
    \/ \E lead_data \in LeadData \cup {TriagedLead} :
          nextLead <= MaxUpdated /\ create_lead(lead_data) /\ UNCHANGED <<issued, calls>>
    \/ \E uid \in DOMAIN leads, t \in StageUids, by \in Actors :
          transition_stage(uid, t, Comment, by) /\ UNCHANGED <<issued, calls>>
    \/ \E uid \in DOMAIN leads, t \in TaskUids, fv \in WellFormedInput, by \in Actors :
          complete_task(uid, t, fv, Notes, by) /\ UNCHANGED <<issued, calls>>
    \/ \E uid \in DOMAIN leads, type \in ActivityTypes, by \in Actors :
          add_activity(uid, type, "Note", by) /\ UNCHANGED <<issued, calls>>

SpecS == Init /\ [][NextS]_vars

SpecU == Init /\ [][NextU]_vars

NextC ==
    \/ \E stage_data \in StageData :
          create_stage(stage_data) /\ UNCHANGED <<issued, calls>>
    \/ \E lead_data \in LeadData : create_lead_generate(lead_data)
    \/ \E c \in calls.creating : create_lead_insert(c)
    \/ \E uid \in LeadUids :
          delete_lead(uid) /\ UNCHANGED <<issued, calls>>
    \/ \E uid \in LeadUids, t \in StageUids, by \in Actors :
          transition_stage_read(uid, t, Comment, by)
    \/ \E c \in calls.moving : transition_stage_write(c)

SpecC == Init /\ [][NextC]_vars

----------------------------------------------------------------------------
\* Vocabulary of the properties

\* a call of transition_stage / complete_task with these arguments is this step
TransitionStep(l, t) ==
    /\ ret'.op = "transition_stage"
    /\ ret'.lead = l
    /\ \E by \in Actors : transition_stage(l, t, Comment, by)
CompleteStep(l, k, fv, by) ==
    /\ ret'.op = "complete_task"
    /\ ret'.lead = l
    /\ ret'.task = k
    /\ complete_task(l, k, fv, Notes, by)

OpenEntries(lead) == { i \in DOMAIN lead.history : lead.history[i].exited_at = Null }

HistoryOK(lead) ==
    /\ Cardinality(OpenEntries(lead)) = 1
    /\ \A i \in OpenEntries(lead) : lead.history[i].stage = lead.current_stage

IncompleteRequired(lead) ==
    { i \in DOMAIN lead.tasks : lead.tasks[i].required /\ lead.tasks[i].status # COMPLETED }

IsPrefix(s, t) == Len(s) <= Len(t) /\ SubSeq(t, 1, Len(s)) = s

----------------------------------------------------------------------------
\* C1: a successful Transition on a lead whose history has exactly one open
\* entry, that of its current stage, again leaves exactly one open entry, and
\* that entry's stage is the new current_stage (the history invariant is kept
\* by every successful transition of a lead created by CreateLead).
C1_HistoryInvariant ==
    [][\A l \in LeadUids, t \in StageUids :
         (/\ l \in DOMAIN leads
          /\ HistoryOK(leads[l])
          /\ TransitionStep(l, t)
          /\ ret'.result = "ok")
         => HistoryOK(leads'[l])]_vars

\* C2: for existing stages A and B with B not in A.allowed_next_stages, a
\* Transition of a lead in A to B fails with TransitionNotAllowed and leaves
\* the leads collection as it was.
C2_EdgeEnforced ==
    [][\A l \in LeadUids, t \in StageUids :
         (/\ l \in DOMAIN leads
          /\ leads[l].current_stage \in DOMAIN stages
          /\ t \in DOMAIN stages
          /\ t \notin stages[leads[l].current_stage].allowed_next_stages
          /\ TransitionStep(l, t))
         => /\ ret'.result = "TransitionNotAllowed"
            /\ leads' = leads]_vars

\* C2 witness: a transition along a missing edge between two existing stages
\* has just been refused, on a lead that also has an incomplete required task
C2_Witness ==
    /\ ret.op = "transition_stage"
    /\ ret.result = "TransitionNotAllowed"
    /\ ret.lead \in DOMAIN leads
    /\ IncompleteRequired(leads[ret.lead]) # {}

\* C3: a Transition of a lead that has a required task whose status is not
\* completed never succeeds, whatever the target and whatever stage the task
\* was created for.
C3_RequiredGate ==
    [][\A l \in LeadUids, t \in StageUids :
         (/\ l \in DOMAIN leads
          /\ IncompleteRequired(leads[l]) # {}
          /\ TransitionStep(l, t))
         => /\ ret'.result # "ok"
            /\ leads' = leads]_vars

\* C3 witness: a transition along an existing edge was refused for a required
\* task that belongs to a stage other than the lead's current one
C3_Witness ==
    /\ ret.op = "transition_stage"
    /\ ret.result = "RequiredTasksIncomplete"
    /\ ret.lead \in DOMAIN leads
    /\ \E i \in IncompleteRequired(leads[ret.lead]) :
          leads[ret.lead].tasks[i].stage # leads[ret.lead].current_stage

\* C4: every failed Transition, whichever check refused it, leaves the leads
\* collection (current_stage, status, history, tasks, activities of every
\* lead) and the stages exactly as they were.
C4_FailedTransitionNoWrite ==
    [][\A l \in LeadUids, t \in StageUids :
         (TransitionStep(l, t) /\ ret'.result # "ok")
         => /\ leads' = leads
            /\ stages' = stages]_vars

\* C4 witness: a transition has just failed on the required-task check, the
\* last of the checks
C4_Witness ==
    /\ ret.op = "transition_stage"
    /\ ret.result = "RequiredTasksIncomplete"
    /\ ret.names # << >>

\* C5: a successful Transition to T sets current_stage to T and status to
\* in_progress and appends exactly one activity, a STAGE_CHANGE whose
\* activity_data has the previous stage as from_stage and T as to_stage; the
\* earlier activities are kept as they were.
C5_TransitionEffect ==
    [][\A l \in LeadUids, t \in StageUids :
         (TransitionStep(l, t) /\ ret'.result = "ok")
         => LET old == leads[l]
                new == leads'[l]
                last == new.activities[Len(new.activities)]
            IN /\ new.current_stage = t
               /\ new.status = IN_PROGRESS
               /\ Len(new.activities) = Len(old.activities) + 1
               /\ IsPrefix(old.activities, new.activities)
               /\ last.type = "STAGE_CHANGE"
               /\ last.activity_data.from_stage = stages[old.current_stage].name
               /\ last.activity_data.to_stage = stages[t].name]_vars

\* C5 witness: a lead has just been moved a second time, so that it carries
\* earlier activities, and its status was in_progress already
C5_Witness ==
    /\ ret.op = "transition_stage"
    /\ ret.result = "ok"
    /\ Cardinality({ i \in DOMAIN leads[ret.lead].activities :
                       leads[ret.lead].activities[i].type = "STAGE_CHANGE" }) >= 2

\* C6: each successful Transition grows the history by exactly one entry: the
\* entries that were there are all closed afterwards and the appended entry is
\* the open entry of the target stage.
C6_HistoryGrowth ==
    [][\A l \in LeadUids, t \in StageUids :
         (/\ l \in DOMAIN leads
          /\ HistoryOK(leads[l])
          /\ TransitionStep(l, t)
          /\ ret'.result = "ok")
         => LET old == leads[l].history
                new == leads'[l].history
            IN /\ Len(new) = Len(old) + 1
               /\ \A i \in DOMAIN old : new[i].exited_at # Null
               /\ new[Len(new)].stage = t
               /\ new[Len(new)].exited_at = Null]_vars

\* C7: a successful Transition to a stage lengthens the lead's task list by
\* the size of that stage's task-template list, every time the stage is
\* entered; no other step changes the length, and no step removes or replaces
\* a task of a stored lead.
C7_TaskAccumulation ==
    [][\A l \in DOMAIN leads \cap DOMAIN leads' :
         /\ Len(leads'[l].tasks) >= Len(leads[l].tasks)
         /\ \A i \in DOMAIN leads[l].tasks :
               leads'[l].tasks[i].uid = leads[l].tasks[i].uid
         /\ \A t \in StageUids :
               (TransitionStep(l, t) /\ ret'.result = "ok")
               => Len(leads'[l].tasks)
                    = Len(leads[l].tasks) + Len(stages[t].stage_tasks)
         /\ ~ (ret'.op = "transition_stage" /\ ret'.lead = l /\ ret'.result = "ok")
               => Len(leads'[l].tasks) = Len(leads[l].tasks)]_vars

\* C7 witness: a lead has just entered a stage for the second time through a
\* cycle, and carries two instances of one task template
C7_Witness ==
    /\ ret.op = "transition_stage"
    /\ ret.result = "ok"
    /\ \E i, j \in DOMAIN leads[ret.lead].tasks :
          /\ i < j
          /\ leads[ret.lead].tasks[i].template_id = leads[ret.lead].tasks[j].template_id
          /\ leads[ret.lead].tasks[j].stage = leads[ret.lead].current_stage

\* the task instances a step appended to lead l
Appended(l) ==
    SubSeq(leads'[l].tasks, Len(leads[l].tasks) + 1, Len(leads'[l].tasks))

\* C8 as stated: a successful Transition to T appends one task instance per
\* template of T whose is_active is true and none for an inactive template.
C8_ActiveTemplatesOnly ==
    [][\A l \in LeadUids, t \in StageUids :
         (TransitionStep(l, t) /\ ret'.result = "ok")
         => LET active == SelectSeq(stages[t].stage_tasks, LAMBDA st : st.is_active)
            IN /\ IsPrefix(leads[l].tasks, leads'[l].tasks)
               /\ Len(Appended(l)) = Len(active)
               /\ \A i \in DOMAIN active :
                     Appended(l)[i].template_id = active[i].uid]_vars

\* C8 amended: a successful Transition to T appends exactly one task instance
\* per template of T, active or not, in template order; each new instance has
\* the template's uid as template_id, stage T, the template's required and
\* is_active flags, status pending, empty field_values, and a uid that no
\* task of the lead had before and no other new instance has.
C8_EveryTemplate ==
    [][\A l \in LeadUids, t \in StageUids :
         (TransitionStep(l, t) /\ ret'.result = "ok")
         => LET templates == stages[t].stage_tasks
            IN /\ IsPrefix(leads[l].tasks, leads'[l].tasks)
               /\ Len(Appended(l)) = Len(templates)
               /\ \A i \in DOMAIN templates :
                     /\ Appended(l)[i].template_id = templates[i].uid
                     /\ Appended(l)[i].stage = t
                     /\ Appended(l)[i].required = templates[i].required
                     /\ Appended(l)[i].is_active = templates[i].is_active
                     /\ Appended(l)[i].status = PENDING
                     /\ Appended(l)[i].field_values = << >>
                     /\ \A j \in DOMAIN leads[l].tasks :
                           leads[l].tasks[j].uid # Appended(l)[i].uid
                     /\ \A j \in DOMAIN templates :
                           j # i => Appended(l)[j].uid # Appended(l)[i].uid]_vars

\* C8 witness: a transition has just appended instances to a lead that had
\* tasks already, among them the instance of an inactive template and the
\* instance of a required one
C8_Witness ==
    /\ ret.op = "transition_stage"
    /\ ret.result = "ok"
    /\ LET tasks == leads[ret.lead].tasks
       IN /\ \E i \in DOMAIN tasks : ~ tasks[i].is_active
          /\ tasks[Len(tasks)].required
          /\ tasks[Len(tasks)].stage = leads[ret.lead].current_stage
          /\ tasks[1].stage # leads[ret.lead].current_stage

\* a lead that is still in the stage it was created in
NeverMoved(lead) ==
    /\ \A i \in DOMAIN lead.activities : lead.activities[i].type # "STAGE_CHANGE"
    /\ lead.history # << >>
    /\ lead.history[1].stage = lead.current_stage

\* required templates of stage a of which the lead has no completed instance
PendingTemplates(lead, a) ==
    { k \in DOMAIN stages[a].stage_tasks :
        /\ stages[a].stage_tasks[k].required
        /\ \A i \in DOMAIN lead.tasks :
              lead.tasks[i].template_id = stages[a].stage_tasks[k].uid
              => lead.tasks[i].status # COMPLETED }

\* C9: for a lead created in a stage A that has a required template T, a
\* Transition along an edge of A issued before T has been completed fails
\* with RequiredTasksIncomplete naming T, and the lead is unchanged.
C9_CreationStageGate ==
    [][\A l \in LeadUids, t \in StageUids :
         (/\ l \in DOMAIN leads
          /\ NeverMoved(leads[l])
          /\ leads[l].current_stage \in DOMAIN stages
          /\ t \in DOMAIN stages
          /\ t \in stages[leads[l].current_stage].allowed_next_stages
          /\ PendingTemplates(leads[l], leads[l].current_stage) # {}
          /\ TransitionStep(l, t))
         => /\ ret'.result = "RequiredTasksIncomplete"
            /\ \A k \in PendingTemplates(leads[l], leads[l].current_stage) :
                  \E n \in DOMAIN ret'.names :
                     ret'.names[n] = stages[leads[l].current_stage].stage_tasks[k].name
            /\ leads' = leads]_vars

\* C10: CompleteTask with well-formed field values on a task that the lead
\* has succeeds, sets that task's status to completed with completed_by, notes
\* and the given field values (original_value "" where none was given), and
\* appends exactly one TASK_COMPLETED activity in the same step; the lead's
\* other tasks, its other fields and every other lead are unchanged.
C10_CompleteTaskEffect ==
    [][\A l \in LeadUids, k \in TaskUids, fv \in FieldValuesInput, by \in Actors :
         (/\ ret'.op = "complete_task"
          /\ l \in DOMAIN leads
          /\ \E i \in DOMAIN leads[l].tasks : leads[l].tasks[i].uid = k
          /\ \A n \in DOMAIN fv :
                fv[n].variable # NoneStr /\ fv[n].field_type \in FieldType
          /\ CompleteStep(l, k, fv, by))
         => LET old == leads[l]
                new == leads'[l]
                done == { i \in DOMAIN old.tasks : new.tasks[i] # old.tasks[i] }
                last == new.activities[Len(new.activities)]
            IN /\ ret'.result = "ok"
               /\ DOMAIN leads' = DOMAIN leads
               /\ \A m \in DOMAIN leads : m # l => leads'[m] = leads[m]
               /\ Len(new.tasks) = Len(old.tasks)
               /\ Cardinality(done) = 1
               /\ \A i \in done :
                     /\ old.tasks[i].uid = k
                     /\ new.tasks[i].uid = k
                     /\ new.tasks[i].status = COMPLETED
                     /\ new.tasks[i].completed_by = by
                     /\ new.tasks[i].notes = Notes
                     /\ Len(new.tasks[i].field_values) = Len(fv)
                     /\ \A n \in DOMAIN fv :
                           /\ new.tasks[i].field_values[n].variable = fv[n].variable
                           /\ new.tasks[i].field_values[n].field_type = fv[n].field_type
                           /\ new.tasks[i].field_values[n].value = fv[n].value
                           /\ new.tasks[i].field_values[n].original_value
                                 = IF fv[n].original_value = NoneStr THEN ""
                                   ELSE fv[n].original_value
                     /\ new.tasks[i].template_id = old.tasks[i].template_id
                     /\ new.tasks[i].stage = old.tasks[i].stage
                     /\ new.tasks[i].required = old.tasks[i].required
               /\ Len(new.activities) = Len(old.activities) + 1
               /\ IsPrefix(old.activities, new.activities)
               /\ last.type = "TASK_COMPLETED"
               /\ last.activity_data.task_uid = k
               /\ new.current_stage = old.current_stage
               /\ new.status = old.status
               /\ new.history = old.history
               /\ new.item_id = old.item_id]_vars

\* C10 witness: a task has just been completed on a lead that has another,
\* pending task, while a second lead with a pending task is stored
C10_Witness ==
    /\ ret.op = "complete_task"
    /\ ret.result = "ok"
    /\ \E i, j \in DOMAIN leads[ret.lead].tasks :
          /\ leads[ret.lead].tasks[i].status = COMPLETED
          /\ leads[ret.lead].tasks[j].status = PENDING
    /\ \E m \in DOMAIN leads :
          /\ m # ret.lead
          /\ \E j \in DOMAIN leads[m].tasks : leads[m].tasks[j].status = PENDING

----------------------------------------------------------------------------
\* the (lead uid, task uid) pair matches no stored task
NoTask(l, k) ==
    \/ l \notin DOMAIN leads
    \/ \A i \in DOMAIN leads[l].tasks : leads[l].tasks[i].uid # k

\* an entry of field_values that TaskFieldValue rejects
Malformed(e) == e.variable = NoneStr \/ e.field_type \notin FieldType

\* C11: CompleteTask, whatever its outcome, never changes the current_stage,
\* status, history or number of tasks of any lead, also when the completed task
\* was the last incomplete required one: only Transition changes the stage.
C11_CompleteTaskFrame ==
    [][\A l \in LeadUids, k \in TaskUids, fv \in FieldValuesInput, by \in Actors :
         CompleteStep(l, k, fv, by)
         => /\ DOMAIN leads' = DOMAIN leads
            /\ \A m \in DOMAIN leads :
                  /\ leads'[m].current_stage = leads[m].current_stage
                  /\ leads'[m].status = leads[m].status
                  /\ leads'[m].history = leads[m].history
                  /\ Len(leads'[m].tasks) = Len(leads[m].tasks)]_vars

\* C11 witness: the last incomplete required task of a lead has just been
\* completed, a stage the lead may move to exists, and the lead has never moved
C11_Witness ==
    /\ ret.op = "complete_task"
    /\ ret.result = "ok"
    /\ LET lead == leads[ret.lead]
       IN /\ \E i \in DOMAIN lead.tasks :
                /\ lead.tasks[i].uid = ret.task
                /\ lead.tasks[i].required
                /\ lead.tasks[i].completed_at = clock
          /\ IncompleteRequired(lead) = {}
          /\ lead.current_stage \in DOMAIN stages
          /\ \E t \in stages[lead.current_stage].allowed_next_stages : t \in DOMAIN stages
          /\ lead.status = PENDING
          /\ \A i \in DOMAIN lead.activities : lead.activities[i].type # "STAGE_CHANGE"

\* C12: CompleteTask with a (lead uid, task uid) pair that matches no task (the
\* lead is missing, or the task is not on that lead, possibly on another lead)
\* changes no lead, never reports success, and reports not found when its
\* field values are well-formed.
C12_NoMatchNoWrite ==
    [][\A l \in LeadUids, k \in TaskUids, fv \in FieldValuesInput, by \in Actors :
         (/\ ret'.op = "complete_task"
          /\ ret'.lead = l
          /\ ret'.task = k
          /\ NoTask(l, k)
          /\ CompleteStep(l, k, fv, by))
         => /\ leads' = leads
            /\ ret'.result # "ok"
            /\ (\A n \in DOMAIN fv : ~ Malformed(fv[n])) => ret'.result = "not_found"]_vars

\* C12 witness: not found has just been reported for a stored lead and a task
\* uid that belongs to another stored lead
C12_Witness ==
    /\ ret.op = "complete_task"
    /\ ret.result = "not_found"
    /\ ret.lead \in DOMAIN leads
    /\ \E m \in DOMAIN leads :
          /\ m # ret.lead
          /\ \E i \in DOMAIN leads[m].tasks : leads[m].tasks[i].uid = ret.task
          /\ \A i \in DOMAIN leads[m].tasks : leads[m].tasks[i].status = PENDING

\* C13: when any entry of the field values passed to CompleteTask is malformed
\* (no variable, or a field_type outside the nine types), the call fails with a
\* validation error and writes nothing, even when other entries are valid.
C13_MalformedNoWrite ==
    [][\A l \in LeadUids, k \in TaskUids, fv \in FieldValuesInput, by \in Actors :
         (/\ ret'.op = "complete_task"
          /\ ret'.lead = l
          /\ ret'.task = k
          /\ \E n \in DOMAIN fv : Malformed(fv[n])
          /\ CompleteStep(l, k, fv, by))
         => /\ ret'.result = "ValidationError"
            /\ leads' = leads]_vars

\* C13 witness: a validation error has just been reported for a pending task
\* that is stored on the lead named in the call
C13_Witness ==
    /\ ret.op = "complete_task"
    /\ ret.result = "ValidationError"
    /\ ret.lead \in DOMAIN leads
    /\ \E i \in DOMAIN leads[ret.lead].tasks :
          /\ leads[ret.lead].tasks[i].uid = ret.task
          /\ leads[ret.lead].tasks[i].status = PENDING
          /\ leads[ret.lead].tasks[i].field_values = << >>

\* C14: a Transition refused with RequiredTasksIncomplete had every other
\* condition met; each CompleteTask with valid field values removes its task from
\* the incomplete required tasks and adds none; and once none is left, the same
\* Transition (target existing and allowed from the current stage) succeeds.
C14_CompleteThenTransition ==
    [][/\ \A l \in LeadUids, t \in StageUids :
            (ret'.result = "RequiredTasksIncomplete" /\ TransitionStep(l, t))
            => /\ l \in DOMAIN leads
               /\ leads[l].current_stage \in DOMAIN stages
               /\ t \in DOMAIN stages
               /\ t \in stages[leads[l].current_stage].allowed_next_stages
               /\ IncompleteRequired(leads[l]) # {}
       /\ \A l \in LeadUids, k \in TaskUids, fv \in FieldValuesInput, by \in Actors :
            (/\ ret'.op = "complete_task"
             /\ ~ NoTask(l, k)
             /\ \A n \in DOMAIN fv : ~ Malformed(fv[n])
             /\ CompleteStep(l, k, fv, by))
            => /\ IncompleteRequired(leads'[l]) \subseteq IncompleteRequired(leads[l])
               /\ \A i \in IncompleteRequired(leads'[l]) : leads[l].tasks[i].uid # k
       /\ \A l \in LeadUids, t \in StageUids :
            (/\ ret'.op = "transition_stage"
             /\ l \in DOMAIN leads
             /\ leads[l].current_stage \in DOMAIN stages
             /\ t \in DOMAIN stages
             /\ t \in stages[leads[l].current_stage].allowed_next_stages
             /\ IncompleteRequired(leads[l]) = {}
             /\ TransitionStep(l, t))
            => /\ ret'.result = "ok"
               /\ leads'[l].current_stage = t]_vars

\* C14 witness: a Transition has just succeeded on a lead whose preceding write
\* was the completion of a required task
C14_Witness ==
    /\ ret.op = "transition_stage"
    /\ ret.result = "ok"
    /\ LET lead == leads[ret.lead]
           n == Len(lead.activities)
       IN /\ n >= 2
          /\ lead.activities[n].type = "STAGE_CHANGE"
          /\ lead.activities[n - 1].type = "TASK_COMPLETED"
          /\ \E i \in DOMAIN lead.tasks :
                /\ lead.tasks[i].uid = lead.activities[n - 1].activity_data.task_uid
                /\ lead.tasks[i].required
                /\ lead.tasks[i].status = COMPLETED

----------------------------------------------------------------------------
\* a call of delete_stage with this argument is this step
DeleteStageStep(u) ==
    /\ ret'.op = "delete_stage"
    /\ delete_stage(u)

LeadsIn(u) == { l \in DOMAIN leads : leads[l].current_stage = u }

\* C19: DeleteStage(uid) fails with StageInUse carrying the number of leads whose
\* current_stage is uid when that number is nonzero, and then the stage is still
\* present; when the number is zero the stage is removed; in both cases no lead
\* is modified and no other stage is touched.
C19_DeleteStageGuard ==
    [][\A u \in StageUids :
         DeleteStageStep(u)
         => /\ leads' = leads
            /\ \A v \in DOMAIN stages : v # u => v \in DOMAIN stages' /\ stages'[v] = stages[v]
            /\ DOMAIN stages' \subseteq DOMAIN stages
            /\ IF LeadsIn(u) # {}
               THEN /\ ret'.result = "StageInUse"
                    /\ ret'.count = Cardinality(LeadsIn(u))
                    /\ stages' = stages
               ELSE /\ ret'.result # "StageInUse"
                    /\ u \notin DOMAIN stages']_vars

\* C19 witness: the deletion of a stored stage that two leads are in has just
\* been refused with count 2
C19_Witness ==
    /\ ret.op = "delete_stage"
    /\ ret.result = "StageInUse"
    /\ ret.count = 2
    /\ \E u \in DOMAIN stages : Cardinality(LeadsIn(u)) = 2

----------------------------------------------------------------------------
\* a call of get_kanban_data with this filter is this step
KanbanStep(cfg) ==
    /\ ret'.op = "get_kanban_data"
    /\ get_kanban_data(cfg)

\* the stored stages a filter selects
StagesOf(cfg) == { u \in DOMAIN stages : cfg = NoneStr \/ stages[u].config = cfg }

\* the columns are exactly the stages S, each once, in ascending order
ColumnsAre(cols, S) ==
    /\ { cols[i].stage : i \in DOMAIN cols } = S
    /\ Len(cols) = Cardinality(S)
    /\ \A i, j \in DOMAIN cols : i < j => cols[i].doc.order <= cols[j].doc.order

\* C20 as stated: the Kanban projection returns one column per active stage
\* (of the filtered config, when a filter is given) and no column for an
\* inactive stage, in ascending order of the stages' order value.
C20_ActiveStageColumns ==
    [][\A cfg \in ConfigUids :
         KanbanStep(cfg)
         => ColumnsAre(ret'.columns, { u \in StagesOf(cfg) : stages[u].is_active })]_vars

\* C20, amended: the Kanban projection returns one column per stored stage (of
\* the filtered config, when a filter is given), active or not, in ascending
\* order of the stages' order value.
C20_EveryStageColumn ==
    [][\A cfg \in ConfigUids :
         KanbanStep(cfg) => ColumnsAre(ret'.columns, StagesOf(cfg))]_vars

\* C20 witness: a projection has just returned two columns, the first of an
\* inactive stage with the smaller order, and a column holds a lead
C20_Witness ==
    /\ ret.op = "get_kanban_data"
    /\ Len(ret.columns) = 2
    /\ ~ ret.columns[1].doc.is_active
    /\ ret.columns[2].doc.is_active
    /\ ret.columns[1].doc.order < ret.columns[2].doc.order
    /\ \E i \in DOMAIN ret.columns : ret.columns[i].count > 0

----------------------------------------------------------------------------
\* C17: within one month and one prefix, the sequence numbers handed out by
\* successive CreateLead calls never decrease in order of issue and none is
\* handed out twice, whatever DeleteLead calls are interleaved.
C17_IssuedMonotonicUnique ==
    \A i, j \in DOMAIN issued :
        i < j => issued[i] <= issued[j] /\ issued[i] # issued[j]

\* the numerically greatest stored sequence number
MaxSeq(col) ==
    CHOOSE n \in { col[l].item_id : l \in DOMAIN col } :
        \A l \in DOMAIN col : col[l].item_id <= n

\* C18: in a sequential run the id generator returns 1 when no item_id of the
\* prefix and month is stored, and otherwise one more than the numerically
\* greatest stored sequence number, also when that number has more digits than
\* the padding width; the number is written with at least PadWidth digits.
C18_NumericSuccessor ==
    \A i \in DOMAIN issued :
        /\ issued[i] = IF DOMAIN leads = {} THEN 1 ELSE MaxSeq(leads) + 1
        /\ Len(Format05d(issued[i])) >= PadWidth

----------------------------------------------------------------------------
\* Every state of the stored document is one a concurrent get_lead can return.
\* The effects of a transition that a write w of lead l shows, t the stage the
\* lead is in after w:
TasksPresent(old, new, t) ==
    /\ t \in DOMAIN stages
    /\ Len(new.tasks) = Len(old.tasks) + Len(stages[t].stage_tasks)
    /\ \A i \in (Len(old.tasks) + 1)..Len(new.tasks) : new.tasks[i].stage = t
PreviousClosed(old, new) ==
    \A i \in DOMAIN old.history :
        old.history[i].stage = old.current_stage
        => i \in DOMAIN new.history /\ new.history[i].exited_at # Null
OpenPresent(new, t) ==
    \E i \in DOMAIN new.history :
        new.history[i].stage = t /\ new.history[i].exited_at = Null
ChangePresent(old, new) ==
    /\ Len(new.activities) = Len(old.activities) + 1
    /\ new.activities[Len(new.activities)].type = "STAGE_CHANGE"

\* C15: a GetLead concurrent with a Transition never sees a partly applied
\* transition: every write that moves a lead to a stage, or that shows any
\* effect of a transition (tasks appended, history changed, STAGE_CHANGE
\* appended), leaves the lead in the target stage with the target's new task
\* instances, the previous history entry closed, an open history entry of the
\* target and the STAGE_CHANGE activity all present.
C15_TransitionAllOrNothing ==
    [][\A l \in DOMAIN leads \cap DOMAIN leads' :
         LET old == leads[l]
             new == leads'[l]
         IN (\/ new.current_stage # old.current_stage
             \/ Len(new.tasks) # Len(old.tasks)
             \/ new.history # old.history
             \/ ChangePresent(old, new))
            => /\ TasksPresent(old, new, new.current_stage)
               /\ PreviousClosed(old, new)
               /\ OpenPresent(new, new.current_stage)
               /\ ChangePresent(old, new)]_vars

\* C16: for any interleaving of concurrent CreateLead calls in one month, no
\* two stored leads have the same item_id.
C16_UniqueItemIds ==
    \A l, m \in DOMAIN leads : l # m => leads[l].item_id # leads[m].item_id

\* C16 witness: of two CreateLead calls that had generated the same item_id,
\* one is stored and the other has just been rejected by the unique index
C16_Witness ==
    /\ ret.op = "create_lead"
    /\ ret.result = "DuplicateKeyError"
    /\ ret.lead \notin DOMAIN leads
    /\ \E m \in DOMAIN leads : leads[m].item_id = 1
    /\ calls.creating = {}

----------------------------------------------------------------------------
\* C21: in a Kanban projection of a store no other call is writing to, the
\* column of stage S holds exactly the leads whose current_stage is S (and whose
\* config is the filter, when one is given), its count is their number, no lead
\* is in two columns, and the projection changes no lead and no stage.
C21_KanbanColumns ==
    [][\A cfg \in ConfigUids :
         KanbanStep(cfg)
         => /\ \A i \in DOMAIN ret'.columns :
                  /\ ret'.columns[i].leads =
                        { l \in DOMAIN leads :
                            /\ leads[l].current_stage = ret'.columns[i].stage
                            /\ cfg = NoneStr \/ leads[l].config = cfg }
                  /\ ret'.columns[i].count = Cardinality(ret'.columns[i].leads)
            /\ \A i, j \in DOMAIN ret'.columns :
                  i # j => ret'.columns[i].leads \cap ret'.columns[j].leads = {}
            /\ leads' = leads
            /\ stages' = stages]_vars

\* C21 witness: a projection filtered on a config has just returned the single
\* column of stage B, empty, while a lead of another config is in stage B
C21_Witness ==
    /\ ret.op = "get_kanban_data"
    /\ DOMAIN stages = {"A", "B"}
    /\ Len(ret.columns) = 1
    /\ ret.columns[1].stage = "B"
    /\ ret.columns[1].count = 0
    /\ \E l \in DOMAIN leads :
          leads[l].current_stage = "B" /\ leads[l].config # stages["B"].config

\* C22: a Transition on a lead whose current_stage resolves to no stage returns
\* the InvalidState error (a structured error, not a crash), decided before the
\* target stage is looked up, and leaves the lead unchanged.
C22_InvalidStateFirst ==
    [][\A l \in LeadUids, t \in StageUids :
         (/\ ret'.op = "transition_stage"
          /\ l \in DOMAIN leads
          /\ leads[l].current_stage \notin DOMAIN stages
          /\ TransitionStep(l, t))
         => /\ ret'.result = "InvalidState"
            /\ leads' = leads]_vars

\* C23: a Transition whose target resolves to no stage fails with NotFound and
\* changes nothing, also when the target is listed in the current stage's
\* allowed_next_stages and also when the lead has incomplete required tasks.
C23_TargetNotFound ==
    [][\A l \in LeadUids, t \in StageUids :
         (/\ ret'.op = "transition_stage"
          /\ l \in DOMAIN leads
          /\ t \notin DOMAIN stages
          /\ TransitionStep(l, t))
         => /\ ret'.result = "StageNotFound"
            /\ leads' = leads
            /\ stages' = stages
            /\ nextUid' = nextUid]_vars

\* C23 witness: NotFound has just been reported for a lead with an incomplete
\* required task whose current stage lists a stage that does not exist
C23_Witness ==
    /\ ret.op = "transition_stage"
    /\ ret.result = "StageNotFound"
    /\ ret.lead \in DOMAIN leads
    /\ DOMAIN stages = {"A", "B"}
    /\ leads[ret.lead].current_stage = "A"
    /\ \E t \in stages["A"].allowed_next_stages : t \notin DOMAIN stages
    /\ IncompleteRequired(leads[ret.lead]) # {}

\* C27: every lead stored by CreateLead has, right after creation, exactly one
\* history entry, open and of the lead's current_stage, and exactly one
\* activity, of type CREATED, whatever lists the creation data supplied.
C27_InitialHistoryAndActivity ==
    [][\A lead_data \in LeadData :
         (ret'.op = "create_lead" /\ create_lead(lead_data))
         => LET doc == leads'[ret'.lead]
            IN /\ Len(doc.history) = 1
               /\ doc.history[1].exited_at = Null
               /\ doc.history[1].stage = doc.current_stage
               /\ Len(doc.activities) = 1
               /\ doc.activities[1].type = "CREATED"]_vars

\* C28: every field value that CompleteTask stores on a task satisfies
\* validate_field_value against the definition with the same field_key in the
\* task's task_variables: a value of the wrong type, below min or above max, or
\* null for a required variable is never persisted.
C28_StoredValuesValid ==
    [][\A l \in LeadUids, k \in TaskUids, fv \in FieldValuesInput, by \in Actors :
         (/\ ret'.op = "complete_task"
          /\ ret'.result = "ok"
          /\ CompleteStep(l, k, fv, by))
         => \A i \in DOMAIN leads'[l].tasks :
               leads'[l].tasks[i].uid = k
               => \A n \in DOMAIN leads'[l].tasks[i].field_values,
                     d \in DOMAIN leads'[l].tasks[i].task_variables :
                     LET stored == leads'[l].tasks[i].field_values[n]
                         field_def == leads'[l].tasks[i].task_variables[d]
                     IN stored.variable = field_def.field_key
                        => validate_field_value(field_def, stored.value) = "ok"]_vars

\* C24: a lead's activities list is append-only: under any interleaving of
\* Transition, CompleteTask, AddActivity and UpdateLead calls, every step leaves
\* the activities of each stored lead a prefix of what they are afterwards, so
\* no activity is edited, reordered or removed.
C24_ActivitiesAppendOnly ==
    [][\A l \in DOMAIN leads :
         /\ l \in DOMAIN leads'
         /\ IsPrefix(leads[l].activities, leads'[l].activities)]_vars

\* C24 witness: a lead that was renamed, had a task completed, and got a note
\* between the read and the write of a transition (the note is older in the
\* list and younger by its timestamp than the stage change after it)
C24_Witness ==
    \E l \in DOMAIN leads :
        /\ leads[l].name = "Renamed"
        /\ Len(leads[l].activities) = 4
        /\ leads[l].activities[2].type = "TASK_COMPLETED"
        /\ leads[l].activities[3].type = "NOTE_ADDED"
        /\ leads[l].activities[4].type = "STAGE_CHANGE"
        /\ leads[l].activities[4].created_at < leads[l].activities[3].created_at

\* C25: once a lead is stored, no call of UpdateLead, Transition, CompleteTask
\* or AddActivity, in any interleaving, changes its uid or its item_id.
C25_IdentityImmutable ==
    [][\A l \in DOMAIN leads :
         /\ l \in DOMAIN leads'
         /\ leads'[l].uid = leads[l].uid
         /\ leads'[l].item_id = leads[l].item_id]_vars

\* C25 witness: an update whose request carried another uid and item_id has just
\* renamed a lead that had been moved, had a task completed and a note added
C25_Witness ==
    /\ ret.op = "update_lead"
    /\ ret.result = "ok"
    /\ ret.lead \in DOMAIN leads
    /\ leads[ret.lead].name = "Renamed"
    /\ leads[ret.lead].uid = ret.lead
    /\ \A data \in UpdateData : data.uid # ret.lead /\ data.item_id # leads[ret.lead].item_id
    /\ \A type \in {"STAGE_CHANGE", "TASK_COMPLETED", "NOTE_ADDED"} :
          \E i \in DOMAIN leads[ret.lead].activities :
             leads[ret.lead].activities[i].type = type

\* the stage and the embedded lists of a lead
Owned(doc) == <<doc.current_stage, doc.history, doc.tasks, doc.activities>>

\* C26: UpdateLead on a stored lead changes neither its current_stage nor its
\* history, tasks or activities, and on a uid that matches no lead it returns
\* false and changes nothing; a step that does change one of the four is a
\* Transition, a CompleteTask or an AddActivity.
C26_UpdateFrame ==
    [][/\ \A pk \in LeadUids, data \in UpdateData :
            (ret'.op = "update_lead" /\ update(pk, data))
            => IF pk \in DOMAIN leads
               THEN /\ ret'.result = "ok"
                    /\ DOMAIN leads' = DOMAIN leads
                    /\ \A l \in DOMAIN leads : Owned(leads'[l]) = Owned(leads[l])
               ELSE /\ ret'.result = "not_found"
                    /\ leads' = leads
       /\ \A l \in DOMAIN leads \cap DOMAIN leads' :
            Owned(leads'[l]) # Owned(leads[l])
            => ret'.op \in {"transition_stage", "complete_task", "add_activity"}]_vars

\* C26 witness: an update whose request carried a stage and empty lists has just
\* renamed a lead that keeps its stage, its tasks, its history and its activities
C26_Witness ==
    /\ ret.op = "update_lead"
    /\ ret.result = "ok"
    /\ ret.lead \in DOMAIN leads
    /\ leads[ret.lead].name = "Renamed"
    /\ \A data \in UpdateData : data.current_stage # leads[ret.lead].current_stage
    /\ leads[ret.lead].tasks # << >>
    /\ leads[ret.lead].history # << >>
    /\ Len(leads[ret.lead].activities) >= 2

\* C29: under any interleaving of concurrent Transition calls on a lead, every
\* change of the stored current_stage from X to Y has Y in X.allowed_next_stages,
\* X being the stage of the stored document at the moment of the write.
C29_EdgeAtWriteTime ==
    [][\A l \in DOMAIN leads \cap DOMAIN leads' :
         leads'[l].current_stage # leads[l].current_stage
         => /\ leads[l].current_stage \in DOMAIN stages
            /\ leads'[l].current_stage
                  \in stages[leads[l].current_stage].allowed_next_stages]_vars

\* C30: whenever Transition reports success its update has been applied to a
\* stored lead, also when the lead is deleted between the transition's read and
\* its write.
C30_SuccessMeansApplied ==
    [][\A c \in calls.moving :
         (/\ ret'.op = "transition_stage"
          /\ ret'.result = "ok"
          /\ transition_stage_write(c))
         => /\ c.uid \in DOMAIN leads'
            /\ leads'[c.uid].current_stage = c.new_stage_uid]_vars

\* activities of a type, and tasks of a status, on a lead
ActivitiesOf(lead, type) == { i \in DOMAIN lead.activities : lead.activities[i].type = type }
TasksWith(lead, status) == { i \in DOMAIN lead.tasks : lead.tasks[i].status = status }

\* C34: in every reachable state of a lead created by CreateLead the number of
\* STAGE_CHANGE activities equals the number of history entries minus one.
C34_AuditMatchesHistory ==
    \A l \in DOMAIN leads :
        Cardinality(ActivitiesOf(leads[l], "STAGE_CHANGE")) = Len(leads[l].history) - 1

\* C35: in every reachable state the number of TASK_COMPLETED activities on a
\* lead equals the number of its completed tasks; a CompleteTask repeated on a
\* completed task adds no activity and overwrites nothing.
C35_CompletionsMatchActivities ==
    \A l \in DOMAIN leads :
        Cardinality(ActivitiesOf(leads[l], "TASK_COMPLETED"))
            = Cardinality(TasksWith(leads[l], COMPLETED))

\* C32: a lead's history is an append-only log: no Transition removes an entry,
\* and an entry's exited_at, once set, is never cleared or overwritten by a later
\* Transition, also when a stage is re-entered and when Transitions on the lead
\* run concurrently.
C32_HistoryAppendOnly ==
    [][\A l \in DOMAIN leads \cap DOMAIN leads' :
         /\ Len(leads'[l].history) >= Len(leads[l].history)
         /\ \A i \in DOMAIN leads[l].history :
               leads[l].history[i].exited_at # Null
               => leads'[l].history[i].exited_at = leads[l].history[i].exited_at]_vars

\* C37: under any interleaving of concurrent Transition calls on a lead, at the
\* moment a transition's write is applied every required task stored on the lead
\* is completed: no transition takes effect on a lead to which another transition
\* has meanwhile added an incomplete required task.
C37_RequiredGateAtWriteTime ==
    [][\A c \in calls.moving :
         (/\ ret'.op = "transition_stage"
          /\ c.uid \in DOMAIN leads
          /\ transition_stage_write(c))
         => IncompleteRequired(leads[c.uid]) = {}]_vars

\* C38: a CompleteTask or AddActivity that succeeded is not undone by a
\* Transition on the lead that read before it and writes after it: at the
\* write every completed task keeps its status, completion data and
\* field_values, and every TASK_COMPLETED or added activity stays in place.
C38_WriteKeepsCompletions ==
    [][\A c \in calls.moving :
         (/\ ret'.op = "transition_stage"
          /\ c.uid \in DOMAIN leads
          /\ transition_stage_write(c))
         => /\ \A i \in DOMAIN leads[c.uid].tasks :
                  leads[c.uid].tasks[i].status = COMPLETED
                  => /\ i \in DOMAIN leads'[c.uid].tasks
                     /\ leads'[c.uid].tasks[i] = leads[c.uid].tasks[i]
            /\ \A i \in DOMAIN leads[c.uid].activities :
                  leads[c.uid].activities[i].type \in {"TASK_COMPLETED"} \cup ActivityTypes
                  => /\ i \in DOMAIN leads'[c.uid].activities
                     /\ leads'[c.uid].activities[i] = leads[c.uid].activities[i]]_vars

\* C38 witness: a transition has just written to a lead on which a task was
\* completed after the transition had read it (the completion is younger than
\* the stage change that follows it in the activities)
C38_Witness ==
    /\ ret.op = "transition_stage"
    /\ ret.result = "ok"
    /\ ret.lead \in DOMAIN leads
    /\ LET lead == leads[ret.lead]
           last == lead.activities[Len(lead.activities)]
       IN /\ last.type = "STAGE_CHANGE"
          /\ \E i \in DOMAIN lead.tasks :
                /\ lead.tasks[i].status = COMPLETED
                /\ lead.tasks[i].field_values # << >>
                /\ lead.tasks[i].completed_at > last.created_at
          /\ \E i \in DOMAIN lead.activities :
                /\ lead.activities[i].type = "TASK_COMPLETED"
                /\ lead.activities[i].created_at > last.created_at

\* C31: task statuses completed and skipped are terminal: once a task of a lead
\* is completed or skipped, no later CompleteTask, Transition or AddActivity
\* changes that task's status.
C31_TerminalStatuses ==
    [][\A l \in DOMAIN leads \cap DOMAIN leads' :
         \A i \in DOMAIN leads[l].tasks :
            leads[l].tasks[i].status \in {COMPLETED, SKIPPED}
            => /\ i \in DOMAIN leads'[l].tasks
               /\ leads'[l].tasks[i].status = leads[l].tasks[i].status]_vars

\* the items of a stage_orders list that name a stage, and the last of them
ListedAt(stage_orders, u) == { i \in DOMAIN stage_orders : stage_orders[i].uid = u }
LastListed(stage_orders, u) ==
    CHOOSE i \in ListedAt(stage_orders, u) : \A j \in ListedAt(stage_orders, u) : j <= i

\* C33: ReorderStages sets the order of every listed stage that exists to the
\* given value (the last one given, when a uid is listed twice), ignores listed
\* uids that match no stage, and leaves unchanged the order of the unlisted
\* stages, every other field of every stage, and every lead.
C33_ReorderFrame ==
    [][\A stage_orders \in StageOrders :
         (ret'.op = "reorder_stages" /\ reorder_stages(stage_orders))
         => /\ DOMAIN stages' = DOMAIN stages
            /\ \A u \in DOMAIN stages :
                  /\ stages'[u].order =
                        IF ListedAt(stage_orders, u) # {}
                        THEN stage_orders[LastListed(stage_orders, u)].order
                        ELSE stages[u].order
                  /\ stages'[u].allowed_next_stages = stages[u].allowed_next_stages
                  /\ stages'[u].stage_tasks = stages[u].stage_tasks
                  /\ [stages'[u] EXCEPT !.order = 0] = [stages[u] EXCEPT !.order = 0]
            /\ leads' = leads]_vars

\* C33 witness: a reorder that listed a stage that does not exist and stage B
\* has just run: B has the given order, the unlisted stage A keeps its own, no
\* stage C was created, and a lead is stored
C33_Witness ==
    /\ ret.op = "reorder_stages"
    /\ ret.result = "ok"
    /\ DOMAIN stages = {"A", "B"}
    /\ stages["B"].order = 3
    /\ stages["A"].order = 2
    /\ leads # << >>

\* C36: under any interleaving of DeleteStage with Transition and CreateLead no
\* stored lead refers to a deleted stage: at the moment a DeleteStage removes a
\* stage, no lead is in that stage.
C36_NoLeadInRemovedStage ==
    [][\A u \in DOMAIN stages :
         u \notin DOMAIN stages'
         => \A l \in DOMAIN leads' : leads'[l].current_stage # u]_vars

\* C39: a Kanban projection computed while Transitions run is a consistent
\* snapshot: every lead that exists throughout the projection and whose stages
\* all have columns is in exactly one column of the result.
C39_KanbanSnapshot ==
    [][\A p \in calls.projecting :
         (ret'.op = "get_kanban_data" /\ kanban_return(p))
         => \A l \in DOMAIN p.started \cap DOMAIN leads :
               (\A u \in DOMAIN stages \cup {p.started[l]} :
                    \E i \in DOMAIN p.listed : p.listed[i] = u)
               => Cardinality({ i \in DOMAIN ret'.columns :
                                   l \in ret'.columns[i].leads }) = 1]_vars

====
